---- MODULE Spec2Model ----
(***************************************************************************)
(* Model of monarch.pcf.app.App: the application aggregate that fans       *)
(* fault-injection calls out over its instances, rolls them back, and      *)
(* (re)discovers its topology.                                             *)
(*                                                                         *)
(* Every remote call the aggregate makes (a per-instance primitive, a      *)
(* command batch on a diego cell, a cf CLI command) is an input: its       *)
(* result is drawn from a small set and the call is appended to `trace`,   *)
(* the call log of the operation that ran last.                            *)
(*                                                                         *)
(* Strings built with ' '.join(map(str, cmd)) are kept as the tuple of     *)
(* their tokens; ports are kept in their str() form.                       *)
(***************************************************************************)
EXTENDS Integers, Sequences, FiniteSets, Bags, TLC

VARIABLES
    cfg,      \* the Config() singleton: read-only during a run
    app,      \* the App object: org, space, name, guid, services, instances
    hist,     \* how the operation before `op` left the application
    op,       \* the operation that ran last and its arguments ("idle": between calls)
    trace,    \* the calls that operation made, in order
    ret,      \* what it returned
    outcome   \* "return", "exit" (sys.exit) or "raise" (uncaught exception)

vars == <<cfg, app, hist, op, trace, ret, outcome>>

----------------------------------------------------------------------------
(* Bounds *)

MaxInst == 2        \* diego cells the platform may report an instance on
TIMES_TO_REMOVE == 2  \* imported from monarch.pcf; the model is parametric in it

Cells == 1..MaxInst

----------------------------------------------------------------------------
(* Values *)

None == [k |-> "None", v |-> 0]
Code(c) == [k |-> "code", v |-> c]
AppRef == [k |-> "App", v |-> 0]

\* exit codes a remote command may come back with
Codes == {0, 1, 2}
\* exit codes of calls whose result the aggregate throws away
IgnoredCodes == {0, 1}

\* the ports argument of block/unblock: 'env', 'all', a custom set, or None
PortsStr(s) == [kind |-> "str", name |-> s, set |-> {}]
PortsSet(S) == [kind |-> "set", name |-> "", set |-> S]
PortsNone == [kind |-> "None", name |-> "", set |-> {}]
PortsArgs == {PortsStr("env"), PortsStr("all"), PortsSet({"8080"})}
isinstance_str(ports) == ports.kind = "str"

Directions == {"ingress", "egress", "both"}

\* the services argument of block_services/unblock_services: None or a list of names
NoFilter == [kind |-> "None", names |-> {}]
NameList(S) == [kind |-> "list", names |-> S]
Filters == {NoFilter, NameList({}), NameList({"logs"}), NameList({"mysql", "logs"}),
            NameList({"cache"})}

\* Service records (monarch.pcf.service.Service): type, name, hosts
Mysql == [type |-> "p-mysql", name |-> "mysql",
          hosts |-> << <<"10.9.0.1", "tcp", "3306">>, <<"10.9.0.3", "tcp", "all">> >>]
Logs == [type |-> "T-Logger", name |-> "logs",
         hosts |-> << <<"10.9.0.2", "udp", "514">> >>]
Cache == [type |-> "p-redis", name |-> "cache",
          hosts |-> << <<"10.9.0.4", "tcp", "6379">> >>]

ContIp == [c \in 1..4 |-> <<"10.255.0.1", "10.255.0.2", "10.255.0.3", "10.255.0.4">>[c]]

\* AppInstance as the aggregate reads it: app_instance['diego_id'], ['cont_ip']
Instance(cell) == [diego_id |-> <<"diego_cell", cell>>, cont_ip |-> ContIp[cell], cell |-> cell]

RECURSIVE Flatten(_)
Flatten(ss) == IF ss = <<>> THEN <<>> ELSE Head(ss) \o Flatten(Tail(ss))

Range(s) == {s[i] : i \in 1..Len(s)}

----------------------------------------------------------------------------
(* App.unblock, lines 234-241 *)

UnblockCall(ports) == [e |-> "App.unblock", ports |-> ports]
InstUnblock(inst, ports, rcode) ==
    [e |-> "instance.unblock", inst |-> inst, ports |-> ports, rcode |-> rcode]

\* A variant of unblock that gives up at the first non-zero code.
unblock_StopOnError(instances, ports, urc) ==
    LET first == {i \in 1..Len(instances) : urc[instances[i].cell] # 0}
        last == IF first = {} THEN Len(instances)
                ELSE CHOOSE i \in first : \A j \in first : i <= j
    IN <<UnblockCall(ports)>>
       \o [i \in 1..last |-> InstUnblock(instances[i], ports, urc[instances[i].cell])]

\* for app_instance in self.instances: app_instance.unblock(ports=ports)
\* urc[cell] is the code the per-instance unblock comes back with; it is dropped.
unblock(instances, ports, urc) ==
    <<UnblockCall(ports)>>
    \o [i \in 1..Len(instances) |->
            InstUnblock(instances[i], ports, urc[instances[i].cell])]

----------------------------------------------------------------------------
(* App.block, lines 217-232 *)

InstBlock(inst, direction, ports, rcode) ==
    [e |-> "instance.block", inst |-> inst, direction |-> direction, ports |-> ports,
     rcode |-> rcode]

\* A variant that hands the rollback whatever block was given.
RollbackPorts_AsGiven(ports) == ports

RollbackPorts(ports) == IF ~isinstance_str(ports) THEN ports ELSE PortsNone

\* A variant of block that returns the failing code without unblocking.
RECURSIVE block_NoRollback(_, _, _, _, _, _)
block_NoRollback(all, instances, direction, ports, rc, urc) ==
    IF instances = <<>> THEN [trace |-> <<>>, ret |-> Code(0)]
    ELSE LET app_instance == Head(instances)
             rcode == rc[app_instance.cell]
             call == <<InstBlock(app_instance, direction, ports, rcode)>>
         IN IF rcode # 0
            THEN [trace |-> call, ret |-> Code(rcode)]
            ELSE LET rest == block_NoRollback(all, Tail(instances), direction, ports, rc, urc)
                 IN [trace |-> call \o rest.trace, ret |-> rest.ret]

\* A variant of block that rolls back but still goes on to the remaining instances.
RECURSIVE block_NoEarlyExit(_, _, _, _, _, _)
block_NoEarlyExit(all, instances, direction, ports, rc, urc) ==
    IF instances = <<>> THEN [trace |-> <<>>, ret |-> Code(0)]
    ELSE LET app_instance == Head(instances)
             rcode == rc[app_instance.cell]
             call == <<InstBlock(app_instance, direction, ports, rcode)>>
             rest == block_NoEarlyExit(all, Tail(instances), direction, ports, rc, urc)
         IN IF rcode # 0
            THEN [trace |-> call \o unblock(all, RollbackPorts(ports), urc) \o rest.trace,
                  ret |-> Code(rcode)]
            ELSE [trace |-> call \o rest.trace, ret |-> rest.ret]

\* The loop of block over the instances still to visit; `all` is self.instances.
\* rc[cell] is the code of the per-instance block, urc[cell] of the per-instance unblock.
RECURSIVE block(_, _, _, _, _, _)
block(all, instances, direction, ports, rc, urc) ==
    IF instances = <<>> THEN [trace |-> <<>>, ret |-> Code(0)]
    ELSE LET app_instance == Head(instances)
             rcode == rc[app_instance.cell]
             call == <<InstBlock(app_instance, direction, ports, rcode)>>
         IN IF rcode # 0
            THEN [trace |-> call \o unblock(all, RollbackPorts(ports), urc),
                  ret |-> Code(rcode)]
            ELSE LET rest == block(all, Tail(instances), direction, ports, rc, urc)
                 IN [trace |-> call \o rest.trace, ret |-> rest.ret]

----------------------------------------------------------------------------
(* Rule construction of block_services and unblock_services *)

\* A variant that forgets the type whitelist.
Targeted_NoWhitelist(service, services, whitelist) ==
    ~(services.kind = "list" /\ services.names # {} /\ service.name \notin services.names)

\* lines 257-260 and 297-300: neither `continue` is taken
Targeted(service, services, whitelist) ==
    /\ ~(service.type \in whitelist)
    /\ ~(services.kind = "list" /\ services.names # {} /\ service.name \notin services.names)

\* A variant that matches on the port even when it is the sentinel 'all'.
PortClause_Always(flag, port) == <<flag, port>>

PortClause(flag, port) == IF port # "all" THEN <<flag, port>> ELSE <<>>

EgressRule(action, cont_ip, sip, protocol, port) ==
    <<"sudo", "iptables">> \o action \o <<"-s", cont_ip, "-d", sip, "-p", protocol>>
        \o PortClause("--dport", port) \o <<"-j", "DROP">>

IngressRule(action, cont_ip, sip, protocol, port) ==
    <<"sudo", "iptables">> \o action \o <<"-d", cont_ip, "-s", sip, "-p", protocol>>
        \o PortClause("--sport", port) \o <<"-j", "DROP">>

Insert == <<"-I", "FORWARD", "1">>
Delete == <<"-D", "FORWARD">>

\* lines 262-277: the insert commands of one endpoint
InsertCmds(cont_ip, host, direction) ==
    (IF direction \in {"egress", "both"}
     THEN <<EgressRule(Insert, cont_ip, host[1], host[2], host[3])>> ELSE <<>>)
    \o (IF direction \in {"ingress", "both"}
        THEN <<IngressRule(Insert, cont_ip, host[1], host[2], host[3])>> ELSE <<>>)

Repeat(n, x) == [i \in 1..n |-> x]

\* A variant that issues one delete too few.
DeleteCmds_OneLess(cont_ip, host) ==
    Repeat(TIMES_TO_REMOVE - 1, EgressRule(Delete, cont_ip, host[1], host[2], host[3]))
    \o Repeat(TIMES_TO_REMOVE, IngressRule(Delete, cont_ip, host[1], host[2], host[3]))

\* A variant that repeats every delete one time fewer.
DeleteCmds_Fewer(cont_ip, host) ==
    Repeat(TIMES_TO_REMOVE - 1, EgressRule(Delete, cont_ip, host[1], host[2], host[3]))
    \o Repeat(TIMES_TO_REMOVE - 1, IngressRule(Delete, cont_ip, host[1], host[2], host[3]))

\* lines 302-317: the delete commands of one endpoint
DeleteCmds(cont_ip, host) ==
    Repeat(TIMES_TO_REMOVE, EgressRule(Delete, cont_ip, host[1], host[2], host[3]))
    \o Repeat(TIMES_TO_REMOVE, IngressRule(Delete, cont_ip, host[1], host[2], host[3]))

\* lines 256-277: cmds of one instance in block_services
BlockBatch(app_instance, svcs, services, direction, whitelist) ==
    Flatten([j \in 1..Len(svcs) |->
        IF Targeted(svcs[j], services, whitelist)
        THEN Flatten([h \in 1..Len(svcs[j].hosts) |->
                 InsertCmds(app_instance.cont_ip, svcs[j].hosts[h], direction)])
        ELSE <<>>])

\* lines 296-317: cmds of one instance in unblock_services
UnblockBatch(app_instance, svcs, services, whitelist) ==
    Flatten([j \in 1..Len(svcs) |->
        IF Targeted(svcs[j], services, whitelist)
        THEN Flatten([h \in 1..Len(svcs[j].hosts) |->
                 DeleteCmds(app_instance.cont_ip, svcs[j].hosts[h])])
        ELSE <<>>])

RunCmds(inst, cmds, rcode) ==
    [e |-> "run_cmd_on_diego_cell", inst |-> inst, cmds |-> cmds, rcode |-> rcode]

----------------------------------------------------------------------------
(* App.unblock_services, lines 288-324 *)

UnblockServicesCall(services) == [e |-> "App.unblock_services", services |-> services]

\* A variant that treats a non-zero deletion result as an error and stops.
RECURSIVE UnblockServicesLoop_StopOnError(_, _, _, _, _)
UnblockServicesLoop_StopOnError(instances, svcs, services, whitelist, drc) ==
    IF instances = <<>> THEN <<>>
    ELSE LET app_instance == Head(instances)
             cmds == UnblockBatch(app_instance, svcs, services, whitelist)
             rcode == drc[app_instance.cell]
         IN IF cmds = <<>>
            THEN UnblockServicesLoop_StopOnError(Tail(instances), svcs, services, whitelist, drc)
            ELSE <<RunCmds(app_instance, cmds, rcode)>>
                 \o (IF rcode # 0 THEN <<>>
                     ELSE UnblockServicesLoop_StopOnError(Tail(instances), svcs, services,
                                                       whitelist, drc))

\* The loop over the instances still to visit. drc[cell] is the code of the deletion
\* batch; the code reads no result at all.
RECURSIVE UnblockServicesLoop(_, _, _, _, _)
UnblockServicesLoop(instances, svcs, services, whitelist, drc) ==
    IF instances = <<>> THEN <<>>
    ELSE LET app_instance == Head(instances)
             cmds == UnblockBatch(app_instance, svcs, services, whitelist)
             rest == UnblockServicesLoop(Tail(instances), svcs, services, whitelist, drc)
         IN IF cmds = <<>> THEN rest
            ELSE <<RunCmds(app_instance, cmds, drc[app_instance.cell])>> \o rest

unblock_services(instances, svcs, services, whitelist, drc) ==
    <<UnblockServicesCall(services)>>
    \o UnblockServicesLoop(instances, svcs, services, whitelist, drc)

----------------------------------------------------------------------------
(* App.block_services, lines 243-286 *)

\* A variant that returns the failing code but leaves the inserted rules in place.
RECURSIVE block_services_NoRollback(_, _, _, _, _, _, _, _)
block_services_NoRollback(all, instances, svcs, services, direction, whitelist, brc, drc) ==
    IF instances = <<>> THEN [trace |-> <<>>, ret |-> Code(0)]
    ELSE LET app_instance == Head(instances)
             cmds == BlockBatch(app_instance, svcs, services, direction, whitelist)
             rcode == brc[app_instance.cell]
             rest == block_services_NoRollback(all, Tail(instances), svcs, services,
                                               direction, whitelist, brc, drc)
         IN IF cmds = <<>> THEN rest
            ELSE IF rcode # 0
            THEN [trace |-> <<RunCmds(app_instance, cmds, rcode)>>, ret |-> Code(rcode)]
            ELSE [trace |-> <<RunCmds(app_instance, cmds, rcode)>> \o rest.trace,
                  ret |-> rest.ret]

\* The loop of block_services over the instances still to visit; `direction` is the
\* value util.parse_direction gave. brc[cell] is the code of the insertion batch.
RECURSIVE block_services(_, _, _, _, _, _, _, _)
block_services(all, instances, svcs, services, direction, whitelist, brc, drc) ==
    IF instances = <<>> THEN [trace |-> <<>>, ret |-> Code(0)]
    ELSE LET app_instance == Head(instances)
             cmds == BlockBatch(app_instance, svcs, services, direction, whitelist)
             rcode == brc[app_instance.cell]
             rest == block_services(all, Tail(instances), svcs, services, direction,
                                    whitelist, brc, drc)
         IN IF cmds = <<>> THEN rest
            ELSE IF rcode # 0
            THEN [trace |-> <<RunCmds(app_instance, cmds, rcode)>>
                            \o unblock_services(all, svcs, services, whitelist, drc),
                  ret |-> Code(rcode)]
            ELSE [trace |-> <<RunCmds(app_instance, cmds, rcode)>> \o rest.trace,
                  ret |-> rest.ret]

----------------------------------------------------------------------------
(* App.unmanipulate_network, lines 363-368, and App.undo_all, lines 107-113 *)

UnmanipulateCall == [e |-> "App.unmanipulate_network"]

\* mrc[cell] is the code of the per-instance unmanipulate_network; it is dropped.
unmanipulate_network(instances, mrc) ==
    <<UnmanipulateCall>> \o
    [i \in 1..Len(instances) |->
        [e |-> "instance.unmanipulate_network", inst |-> instances[i],
         rcode |-> mrc[instances[i].cell]]]

\* A variant of undo_all that unwinds the network manipulation before the service rules.
undo_all_Reordered(instances, svcs, whitelist, urc, drc, mrc) ==
    unblock(instances, PortsNone, urc)
    \o unmanipulate_network(instances, mrc)
    \o unblock_services(instances, svcs, NoFilter, whitelist, drc)

undo_all(instances, svcs, whitelist, urc, drc, mrc) ==
    unblock(instances, PortsNone, urc)
    \o unblock_services(instances, svcs, NoFilter, whitelist, drc)
    \o unmanipulate_network(instances, mrc)

----------------------------------------------------------------------------
(* App.manipulate_network and App.shape_network, lines 326-361 *)

\* the keyword arguments handed through to the per-instance manipulate_network
KwargsSets == {{}, {<<"latency", "100">>}}

InstManipulate(inst, kwargs, rcode) ==
    [e |-> "instance.manipulate_network", inst |-> inst, kwargs |-> kwargs, rcode |-> rcode]

\* A variant of manipulate_network that rolls back only the instances it has touched.
RECURSIVE manipulate_network_PartialRollback(_, _, _, _, _)
manipulate_network_PartialRollback(all, instances, kwargs, rc, mrc) ==
    IF instances = <<>> THEN [trace |-> <<>>, ret |-> Code(0)]
    ELSE LET app_instance == Head(instances)
             rcode == rc[app_instance.cell]
             call == <<InstManipulate(app_instance, kwargs, rcode)>>
             touched == SubSeq(all, 1, Len(all) - Len(instances) + 1)
         IN IF rcode # 0
            THEN [trace |-> call \o unmanipulate_network(touched, mrc), ret |-> Code(rcode)]
            ELSE LET rest == manipulate_network_PartialRollback(all, Tail(instances),
                                                                kwargs, rc, mrc)
                 IN [trace |-> call \o rest.trace, ret |-> rest.ret]

\* The loop of manipulate_network over the instances still to visit; `all` is
\* self.instances.  rc[cell] is the code of the per-instance manipulate_network.
RECURSIVE manipulate_network(_, _, _, _, _)
manipulate_network(all, instances, kwargs, rc, mrc) ==
    IF instances = <<>> THEN [trace |-> <<>>, ret |-> Code(0)]
    ELSE LET app_instance == Head(instances)
             rcode == rc[app_instance.cell]
             call == <<InstManipulate(app_instance, kwargs, rcode)>>
         IN IF rcode # 0
            THEN [trace |-> call \o unmanipulate_network(all, mrc), ret |-> Code(rcode)]
            ELSE LET rest == manipulate_network(all, Tail(instances), kwargs, rc, mrc)
                 IN [trace |-> call \o rest.trace, ret |-> rest.ret]

\* A bandwidth limit in kilobits per second, or NoLimit for the default None.
NoLimit == "None"
Limits == {<<NoLimit, NoLimit>>, <<"0", NoLimit>>, <<"512", NoLimit>>, <<NoLimit, "256">>,
           <<"512", "256">>}

\* truth value of a limit: None and 0 are falsy
Truthy(limit) == limit \notin {NoLimit, "0"}

InstShape(inst, download_limit, upload_limit, rcode) ==
    [e |-> "instance.shape_network", inst |-> inst, download_limit |-> download_limit,
     upload_limit |-> upload_limit, rcode |-> rcode]

\* the loop of shape_network, lines 356-361
RECURSIVE ShapeLoop(_, _, _, _, _, _)
ShapeLoop(all, instances, download_limit, upload_limit, rc, mrc) ==
    IF instances = <<>> THEN [trace |-> <<>>, ret |-> Code(0)]
    ELSE LET app_instance == Head(instances)
             rcode == rc[app_instance.cell]
             call == <<InstShape(app_instance, download_limit, upload_limit, rcode)>>
         IN IF rcode # 0
            THEN [trace |-> call \o unmanipulate_network(all, mrc), ret |-> Code(rcode)]
            ELSE LET rest == ShapeLoop(all, Tail(instances), download_limit, upload_limit,
                                       rc, mrc)
                 IN [trace |-> call \o rest.trace, ret |-> rest.ret]

shape_network(instances, download_limit, upload_limit, rc, mrc) ==
    IF ~(Truthy(download_limit) \/ Truthy(upload_limit))
    THEN [trace |-> <<>>, ret |-> Code(0)]
    ELSE ShapeLoop(instances, instances, download_limit, upload_limit, rc, mrc)

----------------------------------------------------------------------------
(* App.kill_monit_process and App.start_monit_process, lines 370-405 *)

Process == "rep"

\* Lines the search can print.  `in` on strings is read off the texts:
\* HasRunPath(l) is '/var/vcap/sys/run' in l, HasFindCmd(l) is 'find /var/vcap/sys/run' in l.
PidFile1 == "/var/vcap/sys/run/rep/rep.pid"
PidFile2 == "/var/vcap/sys/run/rep/rep_helper.pid"
EchoLine == "find /var/vcap/sys/run | grep rep | grep --color=never pid"
BannerLine == "Unauthorized use is strictly prohibited."

HasRunPath(l) == l \in {PidFile1, PidFile2, EchoLine}
HasFindCmd(l) == l = EchoLine

\* the filter of lines 381-384
PidFiles(lines) == SelectSeq(lines, LAMBDA l : HasRunPath(l) /\ ~HasFindCmd(l))

\* a command built by str.format: the template and its argument
Format(template, arg) == <<template, arg>>

FindCmd(process) ==
    Format("find /var/vcap/sys/run | grep {} | grep --color=never pid", process)
UnmonitorCmd(process) == Format("sudo /var/vcap/bosh/bin/monit unmonitor {}", process)
KillCmd(pf) == Format("sudo kill $(cat {})", pf)
StartCmd(process) == Format("sudo /var/vcap/bosh/bin/monit start {}", process)

\* app_instance.run_cmd_on_diego_cell(cmd) with what it came back with
InstRun(inst, cmds, rcode, stdout) ==
    [e |-> "instance.run_cmd_on_diego_cell", inst |-> inst, cmds |-> cmds,
     rcode |-> rcode, stdout |-> stdout]

\* start_monit_process, lines 404-405; src[cell] is the dropped code
start_monit_process(instances, process, src) ==
    [i \in 1..Len(instances) |->
        InstRun(instances[i], <<StartCmd(process)>>, src[instances[i].cell], <<>>)]

\* lines 390-391
KillBatch(process, pid_files) ==
    <<UnmonitorCmd(process)>> \o [i \in 1..Len(pid_files) |-> KillCmd(pid_files[i])]

\* A variant of kill_monit_process that returns the code of a failed batch
\* without starting the process again.
kill_monit_process_NoRestart(all, instances, process, search, krc, src) ==
    IF instances = <<>> THEN [trace |-> <<>>, ret |-> None]
    ELSE LET app_instance == Head(instances)
             found == search[app_instance.cell]
             find == <<InstRun(app_instance, <<FindCmd(process)>>, found[1], found[2])>>
             pid_files == PidFiles(found[2])
             rcode == krc[app_instance.cell]
             kill == <<InstRun(app_instance, KillBatch(process, pid_files), rcode, <<>>)>>
         IN IF found[1] # 0 \/ pid_files = <<>>
            THEN [trace |-> find, ret |-> Code(found[1])]
            ELSE IF rcode # 0
            THEN [trace |-> find \o kill, ret |-> Code(rcode)]
            ELSE [trace |-> find \o kill, ret |-> Code(0)]

\* A variant of kill_monit_process whose `return 0` stands after the loop.
RECURSIVE kill_monit_process_EveryInstance(_, _, _, _, _, _)
kill_monit_process_EveryInstance(all, instances, process, search, krc, src) ==
    IF instances = <<>> THEN [trace |-> <<>>, ret |-> Code(0)]
    ELSE LET app_instance == Head(instances)
             found == search[app_instance.cell]
             find == <<InstRun(app_instance, <<FindCmd(process)>>, found[1], found[2])>>
             pid_files == PidFiles(found[2])
             rcode == krc[app_instance.cell]
             kill == <<InstRun(app_instance, KillBatch(process, pid_files), rcode, <<>>)>>
         IN IF found[1] # 0 \/ pid_files = <<>>
            THEN [trace |-> find, ret |-> Code(found[1])]
            ELSE IF rcode # 0
            THEN [trace |-> find \o kill \o start_monit_process(all, process, src),
                  ret |-> Code(rcode)]
            ELSE LET rest == kill_monit_process_EveryInstance(all, Tail(instances), process,
                                                              search, krc, src)
                 IN [trace |-> find \o kill \o rest.trace, ret |-> rest.ret]

\* kill_monit_process, lines 377-397.  search[cell] is <<rcode, lines of stdout>> of
\* the PID-file search, krc[cell] the code of the unmonitor/kill batch.  Every path
\* through the loop body returns, so only Head(instances) is visited; with no
\* instance the function falls off its end.
kill_monit_process(all, instances, process, search, krc, src) ==
    IF instances = <<>> THEN [trace |-> <<>>, ret |-> None]
    ELSE LET app_instance == Head(instances)
             found == search[app_instance.cell]
             find == <<InstRun(app_instance, <<FindCmd(process)>>, found[1], found[2])>>
             pid_files == PidFiles(found[2])
             rcode == krc[app_instance.cell]
             kill == <<InstRun(app_instance, KillBatch(process, pid_files), rcode, <<>>)>>
         IN IF found[1] # 0 \/ pid_files = <<>>
            THEN [trace |-> find, ret |-> Code(found[1])]
            ELSE IF rcode # 0
            THEN [trace |-> find \o kill \o start_monit_process(all, process, src),
                  ret |-> Code(rcode)]
            ELSE [trace |-> find \o kill, ret |-> Code(0)]

----------------------------------------------------------------------------
(* Discovery: the module-level find_application_* functions, lines 429-597 *)

\* A guid is <<>> for None and <<s>> for the string s.
NoGuid == <<>>
Falsy(guid) == guid = <<>> \/ guid = <<"">>

\* find_application_guid, lines 436-445: the first line is read before rcode is looked at
find_application_guid(rcode, stdout) ==
    IF stdout = <<>> THEN [outcome |-> "raise", guid |-> NoGuid]
    ELSE IF rcode # 0 THEN [outcome |-> "exit", guid |-> NoGuid]
    ELSE [outcome |-> "return", guid |-> <<stdout[1]>>]

\* One entry of bosh.get_apps(): app_guid, state, and the cell and container it runs in.
RawInstance(app_guid, state, cell) ==
    [app_guid |-> app_guid, state |-> state, cell_id |-> cell,
     instance_address |-> ContIp[cell]]

\* A variant of the two `continue`s that looks at the application only.
Qualifies_AnyState(instance, app_guid) ==
    app_guid # NoGuid /\ instance.app_guid = app_guid[1]

Qualifies(instance, app_guid) ==
    /\ app_guid # NoGuid /\ instance.app_guid = app_guid[1]
    /\ instance.state = "RUNNING"

\* find_application_instances, lines 492-560, as far as the aggregate reads its result:
\* None when nothing is enumerated, else the instances that pass both `continue`s.
find_application_instances(app_guid, raw_apps) ==
    IF raw_apps = <<>> THEN [k |-> "None", v |-> <<>>]
    ELSE LET kept == SelectSeq(raw_apps, LAMBDA r : Qualifies(r, app_guid))
         IN [k |-> "list", v |-> [i \in 1..Len(kept) |-> Instance(kept[i].cell_id)]]

\* One JSON object of util.extract_json(stdout): whether it has the key VCAP_SERVICES,
\* and the services Service.from_service_info builds from it.
JsonObj(id, has, svcs) == [id |-> id, has |-> has, svcs |-> svcs]

\* list.remove(x): drops the first element equal to x
RECURSIVE ListRemove(_, _)
ListRemove(list, x) ==
    IF list = <<>> THEN <<>>
    ELSE IF Head(list) = x THEN Tail(list)
    ELSE <<Head(list)>> \o ListRemove(Tail(list), x)

\* lines 578-580: `for obj in json_objs` removing from the list it walks; the list
\* iterator is at index i (1-based here) and stops when i passes the current length
RECURSIVE PruneLoop(_, _)
PruneLoop(json_objs, i) ==
    IF i > Len(json_objs) THEN json_objs
    ELSE IF ~json_objs[i].has THEN PruneLoop(ListRemove(json_objs, json_objs[i]), i + 1)
    ELSE PruneLoop(json_objs, i + 1)

\* find_application_services, lines 570-597
find_application_services(rcode, json_objs) ==
    IF rcode # 0 THEN [outcome |-> "exit", services |-> <<>>]
    ELSE IF json_objs = <<>> THEN [outcome |-> "exit", services |-> <<>>]
    ELSE LET left == PruneLoop(json_objs, 1)
         IN IF Len(left) # 1 THEN [outcome |-> "return", services |-> <<>>]
            ELSE IF ~left[1].has THEN [outcome |-> "raise", services |-> <<>>]
            ELSE [outcome |-> "return", services |-> left[1].svcs]

----------------------------------------------------------------------------
(* App.__init__, add_services_from_cfg, add_custom_service, lines 67-79 and 168-202 *)

NewApp(org, space, appname) ==
    [org |-> org, space |-> space, name |-> appname, guid |-> NoGuid,
     services |-> <<>>, instances |-> <<>>]

Resolved == "93.184.216.34"

\* Service(type='custom', ...) with hosts (addr, protocol, port) for each declared port
CustomService(decl) ==
    [type |-> "custom", name |-> decl.name,
     hosts |-> [i \in 1..Len(decl.ports) |-> <<Resolved, decl.ports[i][1], decl.ports[i][2]>>]]

\* add_services_from_cfg: gethostbyname raises when the host does not resolve
add_services_from_cfg(services, custom, dns_ok) ==
    IF custom = <<>> THEN [outcome |-> "return", services |-> services, trace |-> <<>>]
    ELSE IF ~dns_ok
    THEN [outcome |-> "raise", services |-> services,
          trace |-> <<[e |-> "gethostbyname", host |-> custom[1].host, ok |-> FALSE]>>]
    ELSE [outcome |-> "return",
          services |-> services \o [i \in 1..Len(custom) |-> CustomService(custom[i])],
          trace |-> [i \in 1..Len(custom) |->
                        [e |-> "gethostbyname", host |-> custom[i].host, ok |-> TRUE]]]

----------------------------------------------------------------------------
(* App.discover, lines 39-65 *)

\* A variant of discover without the gate after instance resolution.
discover_NoInstanceGate(custom, org, space, appname, env) ==
    LET a0 == NewApp(org, space, appname)
        t1 == <<[e |-> "cf_target", rcode |-> env.target_rc]>>
        s2 == add_services_from_cfg(a0.services, custom, env.dns_ok)
        t2 == t1 \o <<[e |-> "add_services_from_cfg"]>> \o s2.trace
        s3 == find_application_guid(env.guid_rc, env.guid_out)
        t3 == t2 \o <<[e |-> "find_guid", rcode |-> env.guid_rc, outcome |-> s3.outcome,
                       guid |-> s3.guid]>>
        s4 == find_application_instances(s3.guid, env.raw_apps)
        t4 == t3 \o <<[e |-> "find_instances", result |-> s4]>>
        s5 == find_application_services(env.env_rc, env.json_objs)
        t5 == t4 \o <<[e |-> "find_services", rcode |-> env.env_rc, outcome |-> s5.outcome,
                       services |-> s5.services]>>
        Stop(t, how) == [trace |-> t, outcome |-> how, ret |-> None, app |-> a0]
    IN IF env.target_rc # 0 THEN Stop(t1, "return")
       ELSE IF s2.outcome # "return" THEN Stop(t2, s2.outcome)
       ELSE IF s3.outcome # "return" THEN Stop(t3, s3.outcome)
       ELSE IF Falsy(s3.guid) THEN Stop(t3, "return")
       ELSE IF FALSE THEN Stop(t4, "return")
       ELSE IF s5.outcome # "return" THEN Stop(t5, s5.outcome)
       ELSE [trace |-> t5, outcome |-> "return", ret |-> AppRef,
             app |-> [a0 EXCEPT !.guid = s3.guid, !.instances = s4.v,
                                !.services = s5.services]]

\* env holds the results of the commands discovery runs: target_rc (cf target),
\* dns_ok (gethostbyname), guid_rc and guid_out (cf app --guid), raw_apps
\* (bosh.get_apps()), env_rc and json_objs (cf env). `find_services() is None` never
\* holds: find_application_services returns a list, exits or raises.
discover(custom, org, space, appname, env) ==
    LET a0 == NewApp(org, space, appname)
        t1 == <<[e |-> "cf_target", rcode |-> env.target_rc]>>
        s2 == add_services_from_cfg(a0.services, custom, env.dns_ok)
        t2 == t1 \o <<[e |-> "add_services_from_cfg"]>> \o s2.trace
        s3 == find_application_guid(env.guid_rc, env.guid_out)
        t3 == t2 \o <<[e |-> "find_guid", rcode |-> env.guid_rc, outcome |-> s3.outcome,
                       guid |-> s3.guid]>>
        s4 == find_application_instances(s3.guid, env.raw_apps)
        t4 == t3 \o <<[e |-> "find_instances", result |-> s4]>>
        s5 == find_application_services(env.env_rc, env.json_objs)
        t5 == t4 \o <<[e |-> "find_services", rcode |-> env.env_rc, outcome |-> s5.outcome,
                       services |-> s5.services]>>
        Stop(t, how) == [trace |-> t, outcome |-> how, ret |-> None, app |-> a0]
    IN IF env.target_rc # 0 THEN Stop(t1, "return")
       ELSE IF s2.outcome # "return" THEN Stop(t2, s2.outcome)
       ELSE IF s3.outcome # "return" THEN Stop(t3, s3.outcome)
       ELSE IF Falsy(s3.guid) THEN Stop(t3, "return")
       ELSE IF s4.k = "None" \/ s4.v = <<>> THEN Stop(t4, "return")
       ELSE IF s5.outcome # "return" THEN Stop(t5, s5.outcome)
       ELSE [trace |-> t5, outcome |-> "return", ret |-> AppRef,
             app |-> [a0 EXCEPT !.guid = s3.guid, !.instances = s4.v,
                                !.services = s5.services]]

----------------------------------------------------------------------------
(* App.rediscover, lines 98-105 *)

\* A variant that appends the fresh instances and services to the old ones.
Replace_Merge(self, new_app) ==
    [new_app EXCEPT !.instances = self.instances \o new_app.instances,
                    !.services = self.services \o new_app.services]

\* self.__dict__ = new_app.__dict__
Replace(self, new_app) == new_app

\* A variant of rediscover that, handed None, drops what the aggregate had found.
rediscover_ForgetsOnNone(self, undone, d) ==
    LET t == undone \o <<[e |-> "App.discover"]>> \o d.trace
    IN IF d.outcome # "return" THEN [trace |-> t, outcome |-> d.outcome, app |-> self]
       ELSE IF d.ret = None
            THEN [trace |-> t, outcome |-> "raise",
                  app |-> [self EXCEPT !.guid = NoGuid, !.instances = <<>>]]
       ELSE [trace |-> t, outcome |-> "return", app |-> Replace(self, d.app)]

\* undone is the trace of self.undo_all(), d the result of App.discover(...).
\* new_app.__dict__ on None is an AttributeError.
rediscover(self, undone, d) ==
    LET t == undone \o <<[e |-> "App.discover"]>> \o d.trace
    IN IF d.outcome # "return" THEN [trace |-> t, outcome |-> d.outcome, app |-> self]
       ELSE IF d.ret = None THEN [trace |-> t, outcome |-> "raise", app |-> self]
       ELSE [trace |-> t, outcome |-> "return", app |-> Replace(self, d.app)]

----------------------------------------------------------------------------
(* Inputs *)

Org == "dev"
Space == "staging"
AppName == "billing"

\* Config(): the service whitelist and the custom services declared under 'services'
CustomDecl == [name |-> "ext", host |-> "example.com", ports |-> << <<"tcp", "443">> >>]
Configs ==
    { [whitelist |-> {"T-Logger"}, custom |-> <<CustomDecl>>],
      [whitelist |-> {"T-Logger", "p-redis"}, custom |-> <<>>] }

InjSeqs(S) ==
    {q \in UNION {[1..n -> S] : n \in 0..Cardinality(S)} :
        \A i, j \in 1..Len(q) : q[i] = q[j] => i = j}

\* what bosh.get_apps() may enumerate: at most one entry per cell, in any order
RawKinds == {<<"guid-a", "RUNNING">>, <<"guid-a", "CRASHED">>, <<"guid-b", "RUNNING">>}
RawApps ==
    UNION {{[i \in 1..Len(cs) |-> RawInstance(kd[i][1], kd[i][2], cs[i])] :
               kd \in [1..Len(cs) -> RawKinds]} : cs \in InjSeqs(Cells)}

\* exit code and output lines of `cf app <name> --guid`
GuidResults == {<<0, <<"guid-a">>>>, <<0, <<"">>>>, <<1, <<"FAILED">>>>, <<1, <<>>>>}

\* the JSON objects `cf env` may print
ObjApplication == JsonObj("VCAP_APPLICATION", FALSE, <<>>)
ObjOther == JsonObj("OTHER", FALSE, <<>>)
ObjServices1 == JsonObj("VCAP_SERVICES", TRUE, <<Mysql, Logs>>)
ObjServices2 == JsonObj("VCAP_SERVICES", TRUE, <<Logs, Cache>>)
JsonLists ==
    { <<>>, <<ObjApplication>>, <<ObjServices1, ObjApplication>>,
      <<ObjApplication, ObjServices2>>, <<ObjApplication, ObjOther>>,
      <<ObjApplication, ObjOther, ObjServices1>> }

Env(target_rc, dns_ok, guid, raw_apps, env_rc, json_objs) ==
    [target_rc |-> target_rc, dns_ok |-> dns_ok, guid_rc |-> guid[1], guid_out |-> guid[2],
     raw_apps |-> raw_apps, env_rc |-> env_rc, json_objs |-> json_objs]

\* Results of discovery are drawn stage by stage: a stage that is never reached
\* contributes one fixed value.
Envs ==
    {Env(1, TRUE, <<0, <<"guid-a">>>>, <<>>, 0, <<>>)}
    \cup {Env(0, FALSE, <<0, <<"guid-a">>>>, <<>>, 0, <<>>)}
    \cup {Env(0, TRUE, g, <<>>, 0, <<>>) : g \in GuidResults}
    \cup {Env(0, TRUE, <<0, <<"guid-a">>>>, r, 1, <<>>) : r \in RawApps}
    \cup {Env(0, TRUE, <<0, <<"guid-a">>>>, r, 0, j) : r \in RawApps, j \in JsonLists}

Zero == [c \in Cells |-> 0]
One == [c \in Cells |-> 1]
\* codes of calls that stop the loop at the first non-zero one: which cell fails, and how
RcFuns == {Zero} \cup {[Zero EXCEPT ![c] = x] : c \in Cells, x \in Codes \ {0}}
IgnoredFuns == [Cells -> IgnoredCodes]

\* an operation with its arguments; self is the App object it was called on
Op(name, self, direction, ports, services) ==
    [name |-> name, self |-> self, direction |-> direction, ports |-> ports,
     services |-> services]

----------------------------------------------------------------------------
(* The state machine *)

Init ==
    /\ cfg \in Configs
    /\ app = NewApp(Org, Space, AppName)
    /\ hist = "fresh"
    /\ op = Op("idle", NewApp(Org, Space, AppName), "", PortsNone, NoFilter)
    /\ trace = <<>>
    /\ ret = None
    /\ outcome = "return"

\* the caller is between two calls and the process has not ended
Ready == outcome = "return" /\ op.name = "idle"

\* how the operation that just ran left the application
HistOf ==
    IF op.name \in {"discover", "rediscover"} THEN "fresh"
    ELSE IF op.name \in {"block", "block_services", "manipulate_network", "shape_network",
                          "kill_monit_process"}
         THEN (IF ret = Code(0) THEN "manipulated" ELSE "rolled back")
    ELSE "undone"

\* The caller takes the result of the call; the call log starts afresh.
Forget ==
    /\ outcome = "return"
    /\ op.name # "idle"
    /\ hist' = HistOf
    /\ op' = Op("idle", app, "", PortsNone, NoFilter)
    /\ trace' = <<>>
    /\ ret' = None
    /\ UNCHANGED <<cfg, app, outcome>>

\* app = App.discover(org, space, appname), called while the caller has no discovered
\* application; it keeps the object it has when discovery yields none
Discover ==
    /\ Ready
    /\ app.guid = NoGuid
    /\ \E env \in Envs :
        LET d == discover(cfg.custom, Org, Space, AppName, env)
        IN /\ app' = IF d.outcome = "return" /\ d.ret = AppRef THEN d.app ELSE app
           /\ trace' = d.trace
           /\ ret' = d.ret
           /\ outcome' = d.outcome
    /\ op' = Op("discover", app, "", PortsNone, NoFilter)
    /\ UNCHANGED <<cfg, hist>>

Block ==
    /\ Ready
    /\ \E direction \in {"ingress", "egress"}, ports \in PortsArgs,
          rc \in RcFuns, urc \in {Zero, One} :
        LET r == block(app.instances, app.instances, direction, ports, rc, urc)
        IN /\ trace' = r.trace
           /\ ret' = r.ret
           /\ op' = Op("block", app, direction, ports, NoFilter)
    /\ UNCHANGED <<cfg, app, hist, outcome>>

Unblock ==
    /\ Ready
    /\ \E ports \in {PortsNone, PortsSet({"8080"})}, urc \in IgnoredFuns :
        /\ trace' = unblock(app.instances, ports, urc)
        /\ op' = Op("unblock", app, "", ports, NoFilter)
    /\ ret' = None
    /\ UNCHANGED <<cfg, app, hist, outcome>>

\* direction is what util.parse_direction returned; a falsy result fails the assert
BlockServices ==
    /\ Ready
    /\ \E services \in Filters, direction \in Directions \cup {"None"},
          brc \in RcFuns, drc \in {Zero, One} :
        /\ op' = Op("block_services", app, direction, PortsNone, services)
        /\ IF direction = "None"
           THEN trace' = <<>> /\ ret' = None /\ outcome' = "raise"
           ELSE LET r == block_services(app.instances, app.instances, app.services,
                                        services, direction, cfg.whitelist, brc, drc)
                IN trace' = r.trace /\ ret' = r.ret /\ outcome' = outcome
    /\ UNCHANGED <<cfg, app, hist>>

UnblockServices ==
    /\ Ready
    /\ \E services \in Filters, drc \in IgnoredFuns :
        /\ trace' = unblock_services(app.instances, app.services, services,
                                     cfg.whitelist, drc)
        /\ op' = Op("unblock_services", app, "", PortsNone, services)
    /\ ret' = None
    /\ UNCHANGED <<cfg, app, hist, outcome>>

UndoAll ==
    /\ Ready
    /\ \E urc \in IgnoredFuns, drc \in IgnoredFuns, mrc \in {Zero, One} :
        trace' = undo_all(app.instances, app.services, cfg.whitelist, urc, drc, mrc)
    /\ op' = Op("undo_all", app, "", PortsNone, NoFilter)
    /\ ret' = None
    /\ UNCHANGED <<cfg, app, hist, outcome>>

Rediscover ==
    /\ Ready
    /\ \E codes \in {Zero, One}, env \in Envs :
        LET undone == undo_all(app.instances, app.services, cfg.whitelist,
                               codes, codes, codes)
            r == rediscover(app, undone,
                            discover(cfg.custom, app.org, app.space, app.name, env))
        IN /\ app' = r.app
           /\ trace' = r.trace
           /\ outcome' = r.outcome
    /\ op' = Op("rediscover", app, "", PortsNone, NoFilter)
    /\ ret' = None
    /\ UNCHANGED <<cfg, hist>>

ManipulateNetwork ==
    /\ Ready
    /\ \E kwargs \in KwargsSets, rc \in RcFuns, mrc \in {Zero, One} :
        LET r == manipulate_network(app.instances, app.instances, kwargs, rc, mrc)
        IN /\ trace' = r.trace
           /\ ret' = r.ret
           /\ op' = [name |-> "manipulate_network", self |-> app, kwargs |-> kwargs]
    /\ UNCHANGED <<cfg, app, hist, outcome>>

ShapeNetwork ==
    /\ Ready
    /\ \E limits \in Limits, rc \in RcFuns, mrc \in {Zero, One} :
        LET r == shape_network(app.instances, limits[1], limits[2], rc, mrc)
        IN /\ trace' = r.trace
           /\ ret' = r.ret
           /\ op' = [name |-> "shape_network", self |-> app,
                     download_limit |-> limits[1], upload_limit |-> limits[2]]
    /\ UNCHANGED <<cfg, app, hist, outcome>>

\* what the PID-file search can come back with: <<rcode, lines of stdout>>
SearchResults ==
    {<<0, <<PidFile1>>>>, <<0, <<BannerLine, EchoLine, PidFile1, PidFile2>>>>,
     <<0, <<EchoLine>>>>, <<0, <<>>>>, <<1, <<>>>>, <<1, <<PidFile1>>>>,
     <<2, <<BannerLine>>>>}

\* the first cell answers with any search result, the others find the PID file
SearchFuns == {[c \in Cells |-> IF c = 1 THEN r ELSE <<0, <<PidFile1>>>>] : r \in SearchResults}

KillMonitProcess ==
    /\ Ready
    /\ \E search \in SearchFuns, krc \in RcFuns, src \in {Zero, One} :
        LET r == kill_monit_process(app.instances, app.instances, Process, search, krc, src)
        IN /\ trace' = r.trace
           /\ ret' = r.ret
           /\ op' = [name |-> "kill_monit_process", self |-> app, process |-> Process]
    /\ UNCHANGED <<cfg, app, hist, outcome>>

Next ==
    \/ Discover
    \/ ManipulateNetwork
    \/ ShapeNetwork
    \/ KillMonitProcess
    \/ Block
    \/ Unblock
    \/ BlockServices
    \/ UnblockServices
    \/ UndoAll
    \/ Rediscover
    \/ Forget

Spec == Init /\ [][Next]_vars

----------------------------------------------------------------------------
(* Reading the call log *)

At(i, kind) == i \in 1..Len(trace) /\ trace[i].e = kind
Where(kind) == {i \in 1..Len(trace) : trace[i].e = kind}
Only(kind) == SelectSeq(trace, LAMBDA x : x.e = kind)
InstsOf(events) == [i \in 1..Len(events) |-> events[i].inst]
FailedBlocks == {i \in Where("instance.block") : trace[i].rcode # 0}
IsInsertBatch(i) == At(i, "run_cmd_on_diego_cell") /\ trace[i].cmds[1][3] = "-I"
IsDeleteBatch(i) == At(i, "run_cmd_on_diego_cell") /\ trace[i].cmds[1][3] = "-D"
FailedInserts == {i \in 1..Len(trace) : IsInsertBatch(i) /\ trace[i].rcode # 0}
Self == op.self

----------------------------------------------------------------------------
(* Properties of block and unblock *)

\* C1: when a per-instance block of App.block comes back non-zero, App.unblock is
\* invoked exactly once, after that block; it calls the per-instance unblock on
\* every instance of the application, and block returns the failing code.
C1_BlockFailureRollsBackAll ==
    op.name = "block" =>
        \A k \in FailedBlocks :
            /\ Cardinality(Where("App.unblock")) = 1
            /\ \A j \in Where("App.unblock") : j > k
            /\ \A j \in Where("instance.unblock") : j > k
            /\ InstsOf(Only("instance.unblock")) = Self.instances
            /\ ret = Code(trace[k].rcode)

\* C1 witness: the first of two instances failed; the second was never blocked and
\* is unblocked all the same.
C1_Witness ==
    /\ op.name = "block"
    /\ Len(Self.instances) = 2
    /\ FailedBlocks = {1}
    /\ ret = Code(2)
    /\ Len(Only("instance.unblock")) = 2

\* C2: App.block visits the instances in list order and stops at the first non-zero
\* code; when none fails every instance is blocked once, nothing is unblocked and
\* block returns 0.
C2_BlockInOrderWithEarlyExit ==
    op.name = "block" =>
        LET blocks == Only("instance.block")
        IN /\ Len(blocks) <= Len(Self.instances)
           /\ \A i \in 1..Len(blocks) : blocks[i].inst = Self.instances[i]
           /\ \A i \in 1..Len(blocks) : blocks[i].rcode # 0 => i = Len(blocks)
           /\ FailedBlocks = {} =>
                /\ Len(blocks) = Len(Self.instances)
                /\ Where("App.unblock") = {} /\ Where("instance.unblock") = {}
                /\ ret = Code(0)

\* C2 witness: the first of two instances failed and the second was not blocked.
C2_Witness ==
    /\ op.name = "block"
    /\ Len(Self.instances) = 2
    /\ FailedBlocks # {}
    /\ Len(Only("instance.block")) = 1

\* C3: every invocation of App.unblock calls the per-instance unblock once on every
\* instance, in list order and with the ports it was given, whatever the codes that
\* come back and whatever ran before; called directly it does nothing else and
\* returns normally, without a value.
C3_UnblockReachesEveryInstance ==
    /\ \A j \in Where("App.unblock") :
          LET n == Len(Self.instances)
          IN /\ j + n <= Len(trace)
             /\ \A i \in 1..n :
                   /\ At(j + i, "instance.unblock")
                   /\ trace[j + i].inst = Self.instances[i]
                   /\ trace[j + i].ports = trace[j].ports
             /\ ~At(j + n + 1, "instance.unblock")
    /\ op.name = "unblock" =>
          /\ Where("App.unblock") = {1}
          /\ trace[1].ports = op.ports
          /\ Len(trace) = 1 + Len(Self.instances)
          /\ ret = None /\ outcome = "return"

\* C3 witness: unblock after a block that failed; the unblock of the first instance
\* comes back non-zero and the second instance is unblocked nevertheless.
C3_Witness ==
    /\ op.name = "unblock"
    /\ hist = "rolled back"
    /\ Len(Self.instances) = 2
    /\ trace[2].rcode # 0
    /\ At(3, "instance.unblock")

----------------------------------------------------------------------------
(* Properties of block_services and unblock_services *)

\* C4: when an insertion batch of App.block_services comes back non-zero,
\* App.unblock_services is invoked right after it with the same name filter, no
\* further insertion batch is dispatched, and block_services returns the batch's
\* code; when no batch fails it returns 0.
C4_BlockServicesFailureRollsBack ==
    (op.name = "block_services" /\ outcome = "return") =>
        /\ \A k \in FailedInserts :
              /\ At(k + 1, "App.unblock_services")
              /\ trace[k + 1].services = op.services
              /\ Where("App.unblock_services") = {k + 1}
              /\ \A j \in 1..Len(trace) : IsInsertBatch(j) => j <= k
              /\ ret = Code(trace[k].rcode)
        /\ FailedInserts = {} => (ret = Code(0) /\ Where("App.unblock_services") = {})

\* C4 witness: the batch of the first of two instances failed under a name filter.
C4_Witness ==
    /\ op.name = "block_services"
    /\ Len(Self.instances) = 2
    /\ op.services = NameList({"mysql", "logs"})
    /\ FailedInserts = {1}
    /\ ret = Code(2)

\* the service endpoints a call with name filter f is to act on: service j of the
\* application is not of a whitelisted type and f is unset, empty or names it
Wanted(f) ==
    {j \in 1..Len(Self.services) :
        /\ Self.services[j].type \notin cfg.whitelist
        /\ (f.kind = "None" \/ f.names = {} \/ Self.services[j].name \in f.names)}
Combos(f) ==
    UNION {{<<j, h, d>> : h \in 1..Len(Self.services[j].hosts), d \in {"egress", "ingress"}} :
              j \in Wanted(f)}
RuleOf(action, inst, combo) ==
    LET host == Self.services[combo[1]].hosts[combo[2]]
    IN IF combo[3] = "egress"
       THEN EgressRule(action, inst.cont_ip, host[1], host[2], host[3])
       ELSE IngressRule(action, inst.cont_ip, host[1], host[2], host[3])
WhitelistedAddrs ==
    UNION {{Self.services[j].hosts[h][1] : h \in 1..Len(Self.services[j].hosts)} :
              j \in {i \in 1..Len(Self.services) : Self.services[i].type \in cfg.whitelist}}
Batches == Where("run_cmd_on_diego_cell")
\* the name filter of the one unblock_services call of the log
UnblockFilter == trace[CHOOSE j \in Where("App.unblock_services") : TRUE].services

\* C5: no command of a batch mentions an endpoint address of a service of a
\* whitelisted type, and every command is a rule of an endpoint of a service that
\* is not whitelisted, whatever the name filter and direction.
C5_WhitelistedServicesNeverTargeted ==
    \A i \in Batches : \A n \in 1..Len(trace[i].cmds) :
        /\ Range(trace[i].cmds[n]) \cap WhitelistedAddrs = {}
        /\ \E combo \in Combos(NoFilter), action \in {Insert, Delete} :
              trace[i].cmds[n] = RuleOf(action, trace[i].inst, combo)

\* C5 witness: block_services is asked by name for a whitelisted service and for
\* another one, and dispatches a batch.
C5_Witness ==
    /\ op.name = "block_services"
    /\ op.services = NameList({"mysql", "logs"})
    /\ \E j \in 1..Len(Self.services) :
          Self.services[j].name = "logs" /\ Self.services[j].type \in cfg.whitelist
    /\ Batches # {}

\* C6: a deletion batch of unblock_services holds TIMES_TO_REMOVE copies of the
\* delete command of every (service, endpoint, direction) the call is to act on,
\* for the instance it is sent to, and nothing else.
C6_DeleteRepeatedTimesToRemove ==
    \A i \in Batches : IsDeleteBatch(i) =>
        LET cmds == trace[i].cmds
            want == Combos(UnblockFilter)
        IN /\ \A combo \in want :
                 Cardinality({n \in 1..Len(cmds) :
                                 cmds[n] = RuleOf(Delete, trace[i].inst, combo)})
                     = TIMES_TO_REMOVE
           /\ \A n \in 1..Len(cmds) :
                 \E combo \in want : cmds[n] = RuleOf(Delete, trace[i].inst, combo)
           /\ Len(cmds) = TIMES_TO_REMOVE * Cardinality(want)

\* C6 witness: unblock_services under a name filter on two instances and a service
\* with two endpoints.
C6_Witness ==
    /\ op.name = "unblock_services"
    /\ op.services = NameList({"mysql", "logs"})
    /\ Len(Self.instances) = 2
    /\ Cardinality(Combos(op.services)) = 4
    /\ Cardinality(Batches) = 2

\* C7: after unblock_services is invoked, every instance for which there is
\* something to delete gets exactly one deletion batch, in list order, whatever the
\* earlier batches came back with; called directly it returns normally, no value.
C7_UnblockServicesNeverAborts ==
    /\ Where("App.unblock_services") # {} =>
          /\ Cardinality(Where("App.unblock_services")) = 1
          /\ InstsOf(SelectSeq(trace, LAMBDA x : x.e = "run_cmd_on_diego_cell"
                                                 /\ x.cmds[1][3] = "-D"))
                = (IF Combos(UnblockFilter) # {} THEN Self.instances ELSE <<>>)
          /\ \A i \in Batches : IsDeleteBatch(i) =>
                \A j \in Where("App.unblock_services") : j < i
    /\ op.name = "unblock_services" =>
          /\ Where("App.unblock_services") = {1}
          /\ trace[1].services = op.services
          /\ ret = None /\ outcome = "return"

\* C7 witness: the deletion batch of the first instance came back non-zero and the
\* second instance got its batch.
C7_Witness ==
    /\ op.name = "unblock_services"
    /\ Len(trace) = 3
    /\ trace[2].rcode # 0
    /\ IsDeleteBatch(3)

----------------------------------------------------------------------------
(* Properties of undo_all and rediscover *)

UndoCalls == {"App.unblock", "App.unblock_services", "App.unmanipulate_network"}
CallsOf(t) == [i \in 1..Len(t) |-> t[i].e]

\* C8: undo_all invokes unblock, unblock_services and unmanipulate_network, each
\* once and in that order, without arguments, and returns normally, whatever ran
\* before and whatever the remote commands come back with.
C8_UndoAllOrder ==
    op.name = "undo_all" =>
        /\ CallsOf(SelectSeq(trace, LAMBDA x : x.e \in UndoCalls))
              = <<"App.unblock", "App.unblock_services", "App.unmanipulate_network">>
        /\ trace[1] = UnblockCall(PortsNone)
        /\ UnblockFilter = NoFilter
        /\ trace[Len(trace) - Len(Self.instances)].e = "App.unmanipulate_network"
        /\ InstsOf(Only("instance.unmanipulate_network")) = Self.instances
        /\ ret = None /\ outcome = "return"

\* C8 witness: undo_all after a manipulation that failed part-way, with an unblock
\* that comes back non-zero.
C8_Witness ==
    /\ op.name = "undo_all"
    /\ hist = "rolled back"
    /\ Len(Self.instances) = 2
    /\ trace[2].rcode # 0
    /\ Batches # {}

\* C9: rediscover runs undo_all on the old instances and services, then discovery,
\* and after a successful discovery the aggregate holds the guid, instances and
\* services that discovery found and nothing of the old state.
C9_RediscoverUndoesThenReplaces ==
    op.name = "rediscover" =>
        /\ Cardinality(Where("App.discover")) = 1
        /\ \A d \in Where("App.discover") :
              /\ CallsOf(SelectSeq(SubSeq(trace, 1, d - 1), LAMBDA x : x.e \in UndoCalls))
                    = <<"App.unblock", "App.unblock_services", "App.unmanipulate_network">>
              /\ \A i \in 1..Len(trace) :
                    trace[i].e \in UndoCalls \cup {"instance.unblock", "run_cmd_on_diego_cell",
                                                  "instance.unmanipulate_network"}
                        <=> i < d
        /\ InstsOf(Only("instance.unblock")) = Self.instances
        /\ InstsOf(Only("instance.unmanipulate_network")) = Self.instances
        /\ outcome = "return" =>
              /\ \E i \in Where("find_guid") : app.guid = trace[i].guid
              /\ \E i \in Where("find_instances") : app.instances = trace[i].result.v
              /\ \E i \in Where("find_services") : app.services = trace[i].services
              /\ app.org = Self.org /\ app.space = Self.space /\ app.name = Self.name

\* C9 witness: an application of two instances is rediscovered with one instance
\* and other services.
C9_Witness ==
    /\ op.name = "rediscover"
    /\ outcome = "return"
    /\ Len(Self.instances) = 2
    /\ Len(app.instances) = 1
    /\ Self.services # <<>>
    /\ app.services # Self.services
    /\ Batches # {}

----------------------------------------------------------------------------
(* Properties of discover *)

Steps == <<"cf_target", "add_services_from_cfg", "find_guid", "find_instances",
           "find_services">>
StepsRun == CallsOf(SelectSeq(trace, LAMBDA x : x.e \in Range(Steps)))
TargetFailed == \E i \in Where("cf_target") : trace[i].rcode # 0
CustomFailed == \E i \in Where("gethostbyname") : ~trace[i].ok
GuidCommandFailed == \E i \in Where("find_guid") : trace[i].outcome # "return"
GuidEmpty ==
    \E i \in Where("find_guid") : trace[i].outcome = "return" /\ Falsy(trace[i].guid)
InstancesFailed ==
    \E i \in Where("find_instances") : trace[i].result.k = "None" \/ trace[i].result.v = <<>>
ServicesFailed == \E i \in Where("find_services") : trace[i].outcome # "return"
FailedStep ==
    IF TargetFailed THEN 1 ELSE IF CustomFailed THEN 2
    ELSE IF GuidCommandFailed \/ GuidEmpty THEN 3
    ELSE IF InstancesFailed THEN 4 ELSE IF ServicesFailed THEN 5 ELSE 0

\* the steps run in order and the step that failed is the last one run
StepsGated ==
    /\ StepsRun = SubSeq(Steps, 1, Len(StepsRun))
    /\ IF FailedStep = 0 THEN StepsRun = Steps ELSE Len(StepsRun) = FailedStep

\* C10 as stated: the steps run in order, a failed step is the last one run, and
\* discover then returns None.
C10_FailedStepReturnsNone ==
    op.name = "discover" =>
        /\ StepsGated
        /\ FailedStep # 0 => (outcome = "return" /\ ret = None)
        /\ FailedStep = 0 => (outcome = "return" /\ ret = AppRef)

\* C10 amended: the steps run in order and a failed step is the last one run; no
\* Application comes out of a discovery with a failed step: discover returns None
\* when targeting fails, the GUID is empty or no running instance is found, and it
\* does not return (the process exits or an exception propagates) when a custom
\* host does not resolve, the GUID command fails or the services cannot be read.
C10_FailedStepYieldsNoApplication ==
    /\ op.name \in {"discover", "rediscover"} => StepsGated
    /\ op.name = "discover" =>
          /\ FailedStep # 0 => (ret = None /\ app = Self)
          /\ (TargetFailed \/ GuidEmpty \/ InstancesFailed)
                => (outcome = "return" /\ ret = None)
          /\ (CustomFailed \/ GuidCommandFailed \/ ServicesFailed)
                => outcome \in {"exit", "raise"}
          /\ FailedStep = 0 => (outcome = "return" /\ ret = AppRef)

\* C10 witness: instances are enumerated but none is a running copy of the
\* application; discovery stops before the services are resolved.
C10_Witness ==
    /\ op.name = "discover"
    /\ \E i \in Where("find_instances") :
          trace[i].result.k = "list" /\ trace[i].result.v = <<>>
    /\ Where("find_services") = {}
    /\ ret = None /\ outcome = "return"

\* C11: after a successful discover the services of the application hold every
\* custom service declared in the configuration together with the bound services
\* resolved from the environment.
C11_CustomServicesMerged ==
    (op.name = "discover" /\ outcome = "return" /\ ret = AppRef) =>
        /\ \A i \in 1..Len(cfg.custom) : CustomService(cfg.custom[i]) \in Range(app.services)
        /\ \A i \in Where("find_services") : Range(trace[i].services) \subseteq Range(app.services)

\* C12: whenever the command of GUID resolution exits non-zero, whatever it
\* printed, find_application_guid ends the process with sys.exit.
C12_GuidFailureExits ==
    op.name = "discover" =>
        \A i \in Where("find_guid") :
            trace[i].rcode # 0 => (trace[i].outcome = "exit" /\ outcome = "exit")

(***************************************************************************)
(* Port tracking of one raw instance (app.py:504-523).  Ports are strings  *)
(* as everywhere in this module; NoPort is what ports.get(...) yields for  *)
(* a key the mapping does not carry.                                       *)
(***************************************************************************)
MaxMaps == 2

NoPort == "None"

HostPorts == {"6100", "6101"}

ContPorts == {"8080", "8443"}

Mappings ==
    [host_port : HostPorts, container_port : ContPorts,
     host_tls_proxy_port : HostPorts \cup {NoPort},
     container_tls_proxy_port : ContPorts \cup {NoPort}]

PortLists == UNION {[1..n -> Mappings] : n \in 0..MaxMaps}

PortConfigs ==
    [host_port_whitelist : {{}, {"6100"}}, container_port_whitelist : {{}, {"8443"}}]

\* variant: a pair is dropped only when both of its sides are whitelisted
AddPorts_EitherSide(acc, ports, config) ==
    LET diego_port == ports.host_port
        cont_port == ports.container_port
        add_diego_port == diego_port \notin config.host_port_whitelist
        add_cont_port == cont_port \notin config.container_port_whitelist
        a1 == IF add_diego_port \/ add_cont_port
              THEN acc \cup {<<diego_port, cont_port>>} ELSE acc
        diego_tls_port == ports.host_tls_proxy_port
        cont_tls_port == ports.container_tls_proxy_port
        add_diego_tls_port ==
            diego_tls_port # NoPort /\ diego_tls_port \notin config.host_port_whitelist
        add_cont_tls_port ==
            cont_tls_port # NoPort /\ cont_tls_port \notin config.container_port_whitelist
    IN  IF add_diego_tls_port \/ add_cont_tls_port
        THEN a1 \cup {<<diego_tls_port, cont_tls_port>>} ELSE a1

\* one pass of the loop body: the plain pair, then the TLS-proxy pair
AddPorts(acc, ports, config) ==
    LET diego_port == ports.host_port
        cont_port == ports.container_port
        add_diego_port == diego_port \notin config.host_port_whitelist
        add_cont_port == cont_port \notin config.container_port_whitelist
        a1 == IF add_diego_port /\ add_cont_port
              THEN acc \cup {<<diego_port, cont_port>>} ELSE acc
        diego_tls_port == ports.host_tls_proxy_port
        cont_tls_port == ports.container_tls_proxy_port
        add_diego_tls_port ==
            diego_tls_port # NoPort /\ diego_tls_port \notin config.host_port_whitelist
        add_cont_tls_port ==
            cont_tls_port # NoPort /\ cont_tls_port \notin config.container_port_whitelist
    IN  IF add_diego_tls_port /\ add_cont_tls_port
        THEN a1 \cup {<<diego_tls_port, cont_tls_port>>} ELSE a1

RECURSIVE PortLoop(_, _, _, _)
PortLoop(acc, port_list, i, config) ==
    IF i > Len(port_list) THEN acc
    ELSE PortLoop(AddPorts(acc, port_list[i], config), port_list, i + 1, config)

app_ports(port_list, config) == PortLoop({}, port_list, 1, config)

\* A raw instance's port list and the two whitelists are drawn; the loop runs.
InitPorts ==
    /\ cfg \in PortConfigs
    /\ app = NewApp(Org, Space, AppName)
    /\ hist = "fresh"
    /\ op \in {[name |-> "app_ports", ports |-> pl] : pl \in PortLists}
    /\ trace = <<>>
    /\ ret = [k |-> "pending", v |-> {}]
    /\ outcome = "pending"

ScanPorts ==
    /\ outcome = "pending"
    /\ ret' = [k |-> "set", v |-> app_ports(op.ports, cfg)]
    /\ outcome' = "return"
    /\ UNCHANGED <<cfg, app, hist, op, trace>>

NextPorts == ScanPorts

SpecPorts == InitPorts /\ [][NextPorts]_vars

Reported(m) == <<m.host_port, m.container_port>>

ReportedTls(m) == <<m.host_tls_proxy_port, m.container_tls_proxy_port>>

Allowed(pair) ==
    /\ pair[1] \notin cfg.host_port_whitelist
    /\ pair[2] \notin cfg.container_port_whitelist

TlsComplete(m) ==
    m.host_tls_proxy_port # NoPort /\ m.container_tls_proxy_port # NoPort

\* C13: a reported (host_port, container_port) pair, and likewise a reported
\* TLS-proxy pair, is in app_ports exactly when neither its host side is in the
\* host-port whitelist nor its container side in the container-port whitelist;
\* a TLS-proxy pair with a side missing is never added, and nothing else is.
C13_PortsOffBothWhitelists ==
    outcome = "return" =>
        /\ \A i \in 1..Len(op.ports) :
              LET m == op.ports[i]
              IN  /\ Reported(m) \in ret.v <=> Allowed(Reported(m))
                  /\ TlsComplete(m) => (ReportedTls(m) \in ret.v <=> Allowed(ReportedTls(m)))
                  /\ ~TlsComplete(m) => ReportedTls(m) \notin ret.v
        /\ \A pair \in ret.v :
              \E i \in 1..Len(op.ports) :
                  pair = Reported(op.ports[i]) \/ pair = ReportedTls(op.ports[i])

\* a mapping whose plain pair is dropped for its host port alone while its
\* complete TLS-proxy pair is kept
C13_Witness ==
    /\ outcome = "return"
    /\ \E i \in 1..Len(op.ports) :
          LET m == op.ports[i]
          IN  /\ m.host_port \in cfg.host_port_whitelist
              /\ m.container_port \notin cfg.container_port_whitelist
              /\ Reported(m) \notin ret.v
              /\ TlsComplete(m)
              /\ ReportedTls(m) \in ret.v

(***************************************************************************)
(* Service resolution on its own (app.py:563-597): the return code of      *)
(* `cf env` and the list util.extract_json finds in its output are drawn,  *)
(* every list of up to MaxObjs objects, and find_application_services runs.*)
(***************************************************************************)
MaxObjs == 3

EnvObjs == {ObjApplication, ObjOther, ObjServices1, ObjServices2}

EnvLists == UNION {[1..n -> EnvObjs] : n \in 0..MaxObjs}

InitServices ==
    /\ cfg \in Configs
    /\ app = NewApp(Org, Space, AppName)
    /\ hist = "fresh"
    /\ op \in {[name |-> "find_application_services", rcode |-> rc, json_objs |-> l] :
                  rc \in {0, 1}, l \in EnvLists}
    /\ trace = <<>>
    /\ ret = [k |-> "pending", v |-> <<>>]
    /\ outcome = "pending"

ResolveServices ==
    /\ outcome = "pending"
    /\ LET r == find_application_services(op.rcode, op.json_objs)
       IN  /\ ret' = [k |-> "services", v |-> r.services]
           /\ outcome' = r.outcome
    /\ UNCHANGED <<cfg, app, hist, op, trace>>

NextServices == ResolveServices

SpecServices == InitServices /\ [][NextServices]_vars

WithKey == {i \in 1..Len(op.json_objs) : op.json_objs[i].has}

\* C14: whenever exactly one embedded object carries VCAP_SERVICES, service
\* resolution returns the services of that object, however many objects without
\* the key stand before or after it.
C14_KeylessObjectsDiscarded ==
    (outcome # "pending" /\ op.rcode = 0 /\ Cardinality(WithKey) = 1) =>
        /\ outcome = "return"
        /\ \A i \in WithKey : ret.v = op.json_objs[i].svcs

\* C15: when `cf env` exits 0 and no embedded object carries VCAP_SERVICES, no
\* object at all included, service resolution returns the empty list and does
\* not end the process.
C15_NoKeyMeansNoServices ==
    (outcome # "pending" /\ op.rcode = 0 /\ WithKey = {}) =>
        (outcome = "return" /\ ret.v = <<>>)

----------------------------------------------------------------------------
(* Properties of kill_monit_process, manipulate_network and shape_network *)

MonitRuns == Where("instance.run_cmd_on_diego_cell")
KillSearches == {i \in MonitRuns : trace[i].cmds = <<FindCmd(op.process)>>}
KillBatches == {i \in MonitRuns : trace[i].cmds[1] = UnmonitorCmd(op.process)}

\* C16: when the PID-file search of kill_monit_process finds no PID file, also
\* when the search command itself exited 0, the call reports an error result,
\* never the success code 0, and dispatches no unmonitor/kill batch.
C16_NoPidFileIsAnError ==
    op.name = "kill_monit_process" =>
        \A i \in KillSearches :
            PidFiles(trace[i].stdout) = <<>> =>
                (ret # Code(0) /\ ret # None /\ KillBatches = {})

NetKind ==
    IF op.name = "manipulate_network" THEN "instance.manipulate_network"
    ELSE "instance.shape_network"
NetCalls == Only(NetKind)
FailedNetCalls == {i \in Where(NetKind) : trace[i].rcode # 0}
NetArgsPassed(call) ==
    IF op.name = "manipulate_network" THEN call.kwargs = op.kwargs
    ELSE call.download_limit = op.download_limit /\ call.upload_limit = op.upload_limit

\* C17: manipulate_network, and shape_network called with at least one limit,
\* call the per-instance operation on the instances in list order; at the first
\* non-zero code, from instance k, unmanipulate_network runs on every instance,
\* nothing is attempted on the instances after k and the code of k is returned;
\* when no instance fails, 0 is returned and unmanipulate_network is not invoked.
C17_NetworkOpsStopAndRollBack ==
    (/\ op.name \in {"manipulate_network", "shape_network"}
     /\ op.name = "shape_network" =>
            (Truthy(op.download_limit) \/ Truthy(op.upload_limit))) =>
        /\ Len(NetCalls) <= Len(Self.instances)
        /\ \A i \in 1..Len(NetCalls) :
              /\ NetCalls[i].inst = Self.instances[i]
              /\ NetArgsPassed(NetCalls[i])
              /\ NetCalls[i].rcode # 0 => i = Len(NetCalls)
        /\ \A k \in FailedNetCalls :
              /\ Cardinality(Where("App.unmanipulate_network")) = 1
              /\ \A j \in Where("App.unmanipulate_network") : j > k
              /\ \A j \in Where("instance.unmanipulate_network") : j > k
              /\ InstsOf(Only("instance.unmanipulate_network")) = Self.instances
              /\ ret = Code(trace[k].rcode)
        /\ FailedNetCalls = {} =>
              /\ Len(NetCalls) = Len(Self.instances)
              /\ Where("App.unmanipulate_network") = {}
              /\ Where("instance.unmanipulate_network") = {}
              /\ ret = Code(0)

\* C17 witness: the first of two instances failed; the second was never
\* manipulated and is unmanipulated all the same.
C17_Witness ==
    /\ op.name = "manipulate_network"
    /\ Len(Self.instances) = 2
    /\ FailedNetCalls = {1}
    /\ Len(NetCalls) = 1
    /\ Len(Only("instance.unmanipulate_network")) = 2
    /\ ret = Code(2)

\* C18: the unblock that rolls a failing block back is given the ports of the
\* block call when they were an explicit collection, and None when they were a
\* policy name ('env', 'all').
C18_RollbackPortsOfBlock ==
    op.name = "block" =>
        \A i \in Where("App.unblock") \cup Where("instance.unblock") :
            /\ op.ports.kind = "set" => trace[i].ports = op.ports
            /\ op.ports.kind = "str" => trace[i].ports = PortsNone

\* C18 witness: a block by policy name failed and its rollback ran with None
C18_Witness ==
    /\ op.name = "block"
    /\ op.ports = PortsStr("env")
    /\ FailedBlocks # {}
    /\ \E i \in Where("instance.unblock") : trace[i].ports = PortsNone

DiegoIp == [c \in 1..4 |-> <<"10.0.4.1", "10.0.4.2", "10.0.4.3", "10.0.4.4">>[c]]

\* the port mappings a raw instance reports
CellPorts ==
    <<[host_port |-> "6100", container_port |-> "8080",
       host_tls_proxy_port |-> "6101", container_tls_proxy_port |-> "8443"]>>

\* an entry of bosh.get_apps() with the fields lines 502-506 read
RawEntry(r) == r @@ [address |-> DiegoIp[r.cell_id], ports |-> CellPorts]

RawEntries == {[i \in 1..Len(raws) |-> RawEntry(raws[i])] : raws \in RawApps}

\* What the two lookups on a cell come back with.
\*   vi:  "found" a grouping whose parent line the regex matches, "missing" (no
\*        grouping holds the container address), "unmatched" (the regex fails)
\*   cid: "ok" (exit 0, a JSON line with data.container-guid), "failed" (non-zero
\*        exit), "no json" (exit 0 with a stdout the subscripts of line 546 fail on)
Lookups ==
    {[vi |-> "found", cid |-> "ok"], [vi |-> "missing", cid |-> "failed"],
     [vi |-> "found", cid |-> "no json"], [vi |-> "unmatched", cid |-> "ok"]}

LookupFuns == [Cells -> Lookups]

\* lines 526-537
LookupVi(look, cell) ==
    IF look.vi = "missing" THEN [outcome |-> "return", v |-> <<>>]
    ELSE IF look.vi = "unmatched" THEN [outcome |-> "raise", v |-> <<>>]
    ELSE [outcome |-> "return", v |-> <<<<"s-", ContIp[cell]>>>>]

\* lines 540-547
LookupContId(look, cell) ==
    IF look.cid = "failed" THEN [outcome |-> "return", v |-> <<>>]
    ELSE IF look.cid = "no json" THEN [outcome |-> "raise", v |-> <<>>]
    ELSE [outcome |-> "return", v |-> <<<<"container", cell>>>>]

\* lines 550-558
AppInstance(diego_id, diego_ip, cont_id, cont_ip, ports, diego_vi) ==
    [diego_id |-> diego_id, diego_ip |-> diego_ip, cont_id |-> cont_id,
     cont_ip |-> cont_ip, app_ports |-> ports, diego_vi |-> diego_vi]

\* the loop of lines 496-559 from entry i on, with the instances appended so far
RECURSIVE InstanceLoop(_, _, _, _, _, _)
InstanceLoop(app_guid, raw_apps, i, instances, config, looks) ==
    IF i > Len(raw_apps) THEN [outcome |-> "return", k |-> "list", v |-> instances]
    ELSE LET instance == raw_apps[i]
             diego_ip == instance.address
             cont_ip == instance.instance_address
             diego_id == <<"diego_cell", instance.cell_id>>
             diego_vi == LookupVi(looks[instance.cell_id], instance.cell_id)
             cont_id == LookupContId(looks[instance.cell_id], instance.cell_id)
             app_instance == AppInstance(diego_id, diego_ip, cont_id.v, cont_ip,
                                         app_ports(instance.ports, config), diego_vi.v)
         IN  IF ~Qualifies(instance, app_guid)
             THEN InstanceLoop(app_guid, raw_apps, i + 1, instances, config, looks)
             ELSE IF diego_vi.outcome = "raise" \/ cont_id.outcome = "raise"
             THEN [outcome |-> "raise", k |-> "raise", v |-> <<>>]
             ELSE InstanceLoop(app_guid, raw_apps, i + 1, Append(instances, app_instance),
                               config, looks)

\* find_application_instances with its lookups, lines 483-560
find_application_instances_full(app_guid, raw_apps, config, looks) ==
    IF raw_apps = <<>> THEN [outcome |-> "return", k |-> "None", v |-> <<>>]
    ELSE InstanceLoop(app_guid, raw_apps, 1, <<>>, config, looks)

InitInstances ==
    /\ cfg \in {pc \in PortConfigs : pc.container_port_whitelist = {}}
    /\ app = NewApp(Org, Space, AppName)
    /\ hist = "fresh"
    /\ op \in {[name |-> "find_application_instances", app_guid |-> <<"guid-a">>,
                raw_apps |-> raws, looks |-> looks] :
                  raws \in RawEntries, looks \in LookupFuns}
    /\ trace = <<>>
    /\ ret = [k |-> "pending", v |-> <<>>]
    /\ outcome = "pending"

ResolveInstances ==
    /\ outcome = "pending"
    /\ LET r == find_application_instances_full(op.app_guid, op.raw_apps, cfg, op.looks)
       IN  /\ ret' = [k |-> r.k, v |-> r.v]
           /\ outcome' = r.outcome
    /\ UNCHANGED <<cfg, app, hist, op, trace>>

NextInstances == ResolveInstances

SpecInstances == InitInstances /\ [][NextInstances]_vars

\* the raw entries of the application that are running, in enumeration order
Running ==
    SelectSeq(op.raw_apps,
              LAMBDA r : r.app_guid = op.app_guid[1] /\ r.state = "RUNNING")

LookupRaised ==
    \E i \in 1..Len(Running) :
        \/ op.looks[Running[i].cell_id].vi = "unmatched"
        \/ op.looks[Running[i].cell_id].cid = "no json"

\* C19: find_application_instances returns one Instance for each raw instance
\* whose app_guid matches and whose state is RUNNING, in enumeration order, and
\* none for the others; it returns None exactly when the raw enumeration is
\* empty, and the empty list, which is not None, when raw instances exist but
\* none qualifies.  The only calls that return nothing are those in which a
\* lookup for a qualifying instance raised.
C19_OneInstancePerRunningEntry ==
    outcome # "pending" =>
        /\ (outcome = "return" /\ ret.k = "None") <=> op.raw_apps = <<>>
        /\ (op.raw_apps # <<>> /\ Running = <<>>) =>
              (outcome = "return" /\ ret.k = "list" /\ ret.v = <<>>)
        /\ (outcome = "return" /\ op.raw_apps # <<>>) =>
              /\ ret.k = "list"
              /\ Len(ret.v) = Len(Running)
              /\ \A i \in 1..Len(Running) :
                    /\ ret.v[i].diego_id = <<"diego_cell", Running[i].cell_id>>
                    /\ ret.v[i].cont_ip = Running[i].instance_address
                    /\ ret.v[i].diego_ip = Running[i].address
        /\ outcome = "raise" <=> LookupRaised

\* C19 witness: of two raw entries the first is not running and the second is;
\* the list returned holds the second alone
C19_Witness ==
    /\ outcome = "return"
    /\ Len(op.raw_apps) = 2
    /\ op.raw_apps[1].state = "CRASHED"
    /\ Len(Running) = 1
    /\ ret.k = "list" /\ Len(ret.v) = 1
    /\ ret.v[1].cont_ip = op.raw_apps[2].instance_address

StartRuns == {i \in MonitRuns : trace[i].cmds = <<StartCmd(op.process)>>}
FailedKillBatches == {i \in KillBatches : trace[i].rcode # 0}

\* C21: when the unmonitor/kill batch of kill_monit_process comes back non-zero,
\* the monit start command of the process is dispatched to every instance, after
\* the batch and before the call returns, and the call returns the code of the
\* batch; when the batch comes back 0, or none was sent, no start command is
\* dispatched.
C21_FailedKillRestartsProcess ==
    op.name = "kill_monit_process" =>
        /\ \A k \in FailedKillBatches :
              /\ \A j \in StartRuns : j > k
              /\ InstsOf([n \in 1..Cardinality(StartRuns) |->
                            trace[CHOOSE j \in StartRuns :
                                    Cardinality({m \in StartRuns : m < j}) = n - 1]])
                    = Self.instances
              /\ ret = Code(trace[k].rcode)
        /\ FailedKillBatches = {} => StartRuns = {}

\* C21 witness: the batch on the first of two instances failed with code 2 and
\* both instances were sent the start command
C21_Witness ==
    /\ op.name = "kill_monit_process"
    /\ Len(Self.instances) = 2
    /\ FailedKillBatches # {}
    /\ Cardinality(StartRuns) = 2
    /\ ret = Code(2)

----------------------------------------------------------------------------
(* The shape of the insertion batches of block_services *)

InsertBatches == {i \in Batches : IsInsertBatch(i)}

\* the directions a parsed direction asks rules for
RuleDirs(direction) ==
    IF direction = "both" THEN {"egress", "ingress"} ELSE {direction}

\* the (service, endpoint, direction) triples a block_services call is to insert
InsertCombos == {combo \in Combos(op.services) : combo[3] \in RuleDirs(op.direction)}

\* the token that follows the option `flag` in a command
Arg(cmd, flag) == cmd[(CHOOSE n \in 1..Len(cmd) : cmd[n] = flag) + 1]

\* cmd is the insert rule, at the head of FORWARD, that drops the traffic of
\* combo for the container at cont_ip: read off the tokens of the command
IsInsertRuleFor(cmd, cont_ip, combo) ==
    LET host == Self.services[combo[1]].hosts[combo[2]]
        egress == combo[3] = "egress"
        portflag == IF egress THEN "--dport" ELSE "--sport"
        otherflag == IF egress THEN "--sport" ELSE "--dport"
    IN  /\ SubSeq(cmd, 1, 5) = <<"sudo", "iptables", "-I", "FORWARD", "1">>
        /\ Arg(cmd, "-s") = (IF egress THEN cont_ip ELSE host[1])
        /\ Arg(cmd, "-d") = (IF egress THEN host[1] ELSE cont_ip)
        /\ Arg(cmd, "-p") = host[2]
        /\ otherflag \notin Range(cmd)
        /\ portflag \in Range(cmd) <=> host[3] # "all"
        /\ host[3] # "all" => Arg(cmd, portflag) = host[3]
        /\ SubSeq(cmd, Len(cmd) - 1, Len(cmd)) = <<"-j", "DROP">>
        /\ Len(cmd) = (IF host[3] # "all" THEN 15 ELSE 13)

\* C22: block_services dispatches at most one batch per instance; the batch
\* holds, for every service that is not whitelisted and matches the name filter
\* and for every endpoint of it, exactly one egress insert rule (source the
\* container, destination the service) when the direction is egress or both and
\* exactly one ingress insert rule (destination the container, source the
\* service) when it is ingress or both, and nothing else; the port clause is
\* there exactly when the port is not 'all'; an empty batch is not dispatched.
C22_OneInsertBatchPerInstance ==
    (op.name = "block_services" /\ outcome = "return") =>
        /\ \A i, j \in InsertBatches : trace[i].inst = trace[j].inst => i = j
        /\ \A i \in InsertBatches :
              LET cmds == trace[i].cmds
                  cont_ip == trace[i].inst.cont_ip
              IN  /\ cmds # <<>>
                  /\ \E k \in 1..Len(Self.instances) : trace[i].inst = Self.instances[k]
                  /\ \A combo \in InsertCombos :
                        Cardinality({n \in 1..Len(cmds) :
                                        IsInsertRuleFor(cmds[n], cont_ip, combo)}) = 1
                  /\ \A n \in 1..Len(cmds) :
                        \E combo \in InsertCombos : IsInsertRuleFor(cmds[n], cont_ip, combo)
                  /\ Len(cmds) = Cardinality(InsertCombos)
        /\ InsertCombos = {} => InsertBatches = {}
        /\ (InsertCombos # {} /\ FailedInserts = {}) =>
              Cardinality(InsertBatches) = Len(Self.instances)

\* C22 witness: both directions, two instances, a service with an endpoint on
\* one port and an endpoint on port 'all': two batches of four rules each
C22_Witness ==
    /\ op.name = "block_services"
    /\ op.direction = "both"
    /\ op.services = NameList({"mysql", "logs"})
    /\ Len(Self.instances) = 2
    /\ Cardinality(InsertBatches) = 2
    /\ Cardinality(InsertCombos) = 4
    /\ \A i \in InsertBatches : Len(trace[i].cmds) = 4
    /\ ret = Code(0)

(***************************************************************************)
(* The forwarding chains of the hosts under block_services and             *)
(* unblock_services (app.py:243-320).  The chain of a host is a bag of     *)
(* DROP rules: an insert command adds one copy of its rule, a delete       *)
(* command removes one copy when there is one and fails otherwise, going   *)
(* on with the rest of the batch.  An insertion batch that comes back      *)
(* non-zero has run some prefix of its commands.                           *)
(*                                                                         *)
(* In this specification `hist` records what the calls so far did to the   *)
(* hosts: chains[cell], the chains before the last unblock_services call,  *)
(* and the number of block_services and of unblock_services calls.         *)
(***************************************************************************)

\* an application discovered on every cell with the given bound services
ChainApp(svcs) ==
    [NewApp(Org, Space, AppName) EXCEPT !.guid = <<"guid-a">>,
                                        !.instances = [c \in Cells |-> Instance(c)],
                                        !.services = svcs]

NoRules == [c \in Cells |-> EmptyBag]

\* the DROP rule a command inserts or deletes: the command without its action
RuleKey(cmd) ==
    IF cmd[3] = "-I" THEN SubSeq(cmd, 6, Len(cmd)) ELSE SubSeq(cmd, 5, Len(cmd))

ApplyCmd(chain, cmd) ==
    IF cmd[3] = "-I" THEN chain (+) SetToBag({RuleKey(cmd)})
    ELSE IF BagIn(RuleKey(cmd), chain) THEN chain (-) SetToBag({RuleKey(cmd)})
    ELSE chain

RECURSIVE ApplyCmds(_, _)
ApplyCmds(chain, cmds) ==
    IF cmds = <<>> THEN chain ELSE ApplyCmds(ApplyCmd(chain, Head(cmds)), Tail(cmds))

\* the commands of a dispatched batch that ran: all of them, or the first `cut`
\* of an insertion batch that came back non-zero
Ran(event, cut) ==
    IF event.cmds[1][3] = "-I" /\ event.rcode # 0
    THEN SubSeq(event.cmds, 1, cut) ELSE event.cmds

\* what the batches of a call log do to the chains, in the order of the log
RECURSIVE ApplyLog(_, _, _)
ApplyLog(chains, log, cut) ==
    IF log = <<>> THEN chains
    ELSE LET event == Head(log)
         IN IF event.e = "run_cmd_on_diego_cell"
            THEN ApplyLog([chains EXCEPT ![event.inst.cell] =
                              ApplyCmds(@, Ran(event, cut))], Tail(log), cut)
            ELSE ApplyLog(chains, Tail(log), cut)

\* the number of commands of the insertion batch of a log that came back non-zero
FailedBatchLen(log) ==
    LET failed == SelectSeq(log, LAMBDA x : x.e = "run_cmd_on_diego_cell"
                                            /\ x.cmds[1][3] = "-I" /\ x.rcode # 0)
    IN IF failed = <<>> THEN 0 ELSE Len(failed[1].cmds)

InitChains ==
    /\ cfg \in Configs
    /\ app \in {ChainApp(<<Mysql, Logs>>), ChainApp(<<Logs, Cache>>),
                ChainApp(<<Mysql, Cache>>)}
    /\ hist = [chains |-> NoRules, before |-> NoRules, blocks |-> 0, unblocks |-> 0]
    /\ op = Op("idle", app, "", PortsNone, NoFilter)
    /\ trace = <<>>
    /\ ret = None
    /\ outcome = "return"

\* codes of the insertion batches: none fails, or the batch of one cell does
FailingCell == {Zero} \cup {[Zero EXCEPT ![c] = 1] : c \in Cells}

\* one more block_services call, before any unblock_services call of the caller;
\* the deletion batches of its rollback come back non-zero, as they do when a
\* rule is deleted more often than it stands in the chain
ChainBlockServices ==
    /\ hist.unblocks = 0
    /\ hist.blocks < TIMES_TO_REMOVE
    /\ \E services \in Filters, direction \in Directions, brc \in FailingCell :
        LET r == block_services(app.instances, app.instances, app.services, services,
                                direction, cfg.whitelist, brc, One)
        IN \E cut \in 0..FailedBatchLen(r.trace) :
            /\ trace' = r.trace
            /\ ret' = r.ret
            /\ op' = Op("block_services", app, direction, PortsNone, services)
            /\ hist' = [hist EXCEPT !.chains = ApplyLog(@, r.trace, cut),
                                    !.blocks = @ + 1]
    /\ UNCHANGED <<cfg, app, outcome>>

\* unblock_services() without filter; the caller makes it at most twice
ChainUnblockServices ==
    /\ hist.unblocks < 2
    /\ \E drc \in {Zero, One} :
        LET log == unblock_services(app.instances, app.services, NoFilter,
                                    cfg.whitelist, drc)
        IN /\ trace' = log
           /\ hist' = [hist EXCEPT !.chains = ApplyLog(@, log, 0),
                                   !.before = hist.chains,
                                   !.unblocks = @ + 1]
    /\ ret' = None
    /\ op' = Op("unblock_services", app, "", PortsNone, NoFilter)
    /\ UNCHANGED <<cfg, app, outcome>>

NextChains == ChainBlockServices \/ ChainUnblockServices

SpecChains == InitChains /\ [][NextChains]_vars

\* C23: with the chain of every host a bag of DROP rules, after at most
\* TIMES_TO_REMOVE block_services calls of any filter and direction, calls whose
\* batch stopped part-way included, one unblock_services() call without filter
\* leaves no DROP rule of the application on any host, and a second one leaves
\* the chains as they are.
C23_UnblockClearsEveryRule ==
    /\ hist.unblocks >= 1 => hist.chains = NoRules
    /\ hist.unblocks = 2 => hist.chains = hist.before

\* C23 witness: after TIMES_TO_REMOVE calls some rule stood TIMES_TO_REMOVE
\* times in the chain of every host; the first unblock_services cleared them
C23_Witness ==
    /\ hist.unblocks = 1
    /\ hist.blocks = TIMES_TO_REMOVE
    /\ \A c \in Cells : \E rule \in BagToSet(hist.before[c]) :
          CopiesIn(rule, hist.before[c]) = TIMES_TO_REMOVE
    /\ hist.chains = NoRules

----------------------------------------------------------------------------
(* rediscover when discovery yields no application *)

\* the discovery of the log returned None: targeting failed, the GUID came back
\* empty, or no running instance was found
DiscoverReturnedNone == TargetFailed \/ GuidEmpty \/ InstancesFailed

\* C24: when App.discover returns None inside rediscover, rediscover does not
\* complete normally and the aggregate keeps its org, space, name, guid,
\* instances and services as they were, all of them, although undo_all has
\* already run on them.
C24_FailedRediscoverKeepsAggregate ==
    (op.name = "rediscover" /\ DiscoverReturnedNone) =>
        /\ outcome = "raise"
        /\ app = Self
        /\ app.org = Self.org /\ app.space = Self.space /\ app.name = Self.name
        /\ app.guid = Self.guid
        /\ app.instances = Self.instances
        /\ app.services = Self.services
        /\ \A d \in Where("App.discover") :
              /\ \E i \in Where("App.unblock") : i < d
              /\ \E i \in Where("App.unblock_services") : i < d
              /\ \E i \in Where("App.unmanipulate_network") : i < d
        /\ InstsOf(Only("instance.unblock")) = Self.instances

\* C24 witness: an application of two instances with bound services is
\* rediscovered, no running instance is found, and it stays as it was
C24_Witness ==
    /\ op.name = "rediscover"
    /\ Len(Self.instances) = 2
    /\ Self.services # <<>>
    /\ InstancesFailed
    /\ outcome = "raise"
    /\ Len(Only("instance.unblock")) = 2
    /\ app.instances = Self.instances
    /\ app.guid = <<"guid-a">>

====
